---- MODULE Spec2Model ----
(***************************************************************************)
(* Model of backend/app/main.py: the signup / login / bank-link handlers   *)
(* and the transaction generator with its risk-scoring heuristic.          *)
(*                                                                         *)
(* Money is counted in cents and risk scores in hundredths, so 200.0 is    *)
(* 20000 and a score of 70.00 is 7000.  A real number that is not a whole  *)
(* number of hundredths (the historical average, the unrounded risk) is a  *)
(* pair <<num, den>> with den > 0.  The arithmetic is exact: the rounding  *)
(* error of binary floating point is not part of the model.                *)
(*                                                                         *)
(* FastAPI runs the plain `def` handlers in a thread pool, each request    *)
(* with a session of its own (get_db), so requests interleave between      *)
(* their database statements.  Every request is served by one of the       *)
(* Workers; pc[w] is the worker's position in the handler it is running.   *)
(***************************************************************************)
EXTENDS Integers, Sequences, FiniteSets

\* ---------------------------------------------------------------- bounds
MaxTxns  == 2          \* rows of the transactions table
MaxCount == 2          \* largest `count` of a generate request

\* the threads of the pool that serve requests; two are enough to interleave
Workers == {"t1", "t2"}

\* inputs of the requests
Emails         == {"a@x.io"}
Passwords      == {"pw1"}
LoginPasswords == {"pw1", "wrong"}
Counts         == 0..MaxCount
ScoreCounts    == {0, 1}

\* draws of the random source and of the clock for one loop iteration:
\* amount = round(uniform(20, 20000), 2) in cents, jitter = uniform(-10, 10) in
\* hundredths, anomaly = random.random() in hundredths, merchant, txn_id
Amounts   == {2000, 20000, 70000, 90000, 2000000}
Jitters   == {-1000, -1, 0, 1, 1000}
Anomalies == {4, 5}
TxnIds    == {"TXN1700000000100", "TXN1700000000999"}

\* the draws of the scoring specification: every amount, jitter and anomaly outcome
ScoreDraws ==
    [amount : Amounts, jitter : Jitters, anomaly : Anomalies,
     merchant : {"Amazon"}, txn_id : {"TXN1700000000100"}]

\* the draws of the request-level specification
SystemDraws ==
    [amount : {20000, 70000}, jitter : {0}, anomaly : {5},
     merchant : {"Amazon"}, txn_id : {"TXN1700000000100"}]

\* ------------------------------------------------------- program constants
merchants == {"Amazon", "Flipkart", "Swiggy", "Uber", "Zomato", "Myntra", "BigBasket",
              "IRCTC", "Paytm", "Ola"}
DefaultAvg == 20000        \* 200.0
RatioFactor == 20
MinBase == 500             \* 5.0
MaxBase == 9500            \* 95.0
AnomalyThreshold == 5      \* 0.05
AnomalyBonus == 2000       \* 20
ScoreCap == 10000          \* 100.0
SafeBelow == 7000          \* 70
SuspiciousUpTo == 9000     \* 90
ReasonsAbove == 7500       \* 75

VARIABLES users, accounts, transactions, scored, pc, local, response

vars == <<users, accounts, transactions, scored, pc, local, response>>

\* ---------------------------------------------------------------- helpers
Min(a, b) == IF a <= b THEN a ELSE b
Max(a, b) == IF a >= b THEN a ELSE b

RECURSIVE GCD(_, _)
GCD(a, b) == IF b = 0 THEN a ELSE GCD(b, a % b)

RECURSIVE SumAmounts(_)
SumAmounts(s) == IF s = <<>> THEN 0 ELSE Head(s).amount + SumAmounts(Tail(s))

\* db.query(models.Transaction).filter(account_id == id).all()
PastOf(table, id) == SelectSeq(table, LAMBDA t : t.account_id = id)

\* mutant: an account without history is scored against an average of 0
AvgAmount_zero_default(past) ==
    IF past = <<>> THEN <<0, 1>> ELSE <<SumAmounts(past), Len(past)>>

\* avg_amount as the pair <<sum, n>>; 200.0 when there is no history
AvgAmount(past) ==
    IF past = <<>> THEN <<DefaultAvg, 1>> ELSE <<SumAmounts(past), Len(past)>>

\* Python's round(x, 2) on x = num/den hundredths (num >= 0): nearest, ties to even
Round2(x) ==
    LET q == x[1] \div x[2]
        r == x[1] % x[2]
    IN  IF 2 * r < x[2] THEN q
        ELSE IF 2 * r > x[2] THEN q + 1
        ELSE IF q % 2 = 0 THEN q ELSE q + 1

\* mutant: the ratio is added to the factor instead of multiplied by it
BaseRisk_added_factor(amount, avg, jitter) ==
    LET P == amount * avg[2]
        Q == Max(100 * avg[2], avg[1])
        g == GCD(P, Q)
        p == P \div g
        q == Q \div g
        num == 100 * p + (RatioFactor * 100 + jitter) * q
    IN  IF num <= MinBase * q THEN <<MinBase, 1>>
        ELSE IF num >= MaxBase * q THEN <<MaxBase, 1>>
        ELSE <<num, q>>

\* min(95.0, max(5.0, (amount / max(1.0, avg_amount)) * 20 + jitter)), in hundredths.
\* amount / max(1.0, avg) = amount * n / max(100 * n, sum), reduced to lowest terms.
BaseRisk(amount, avg, jitter) ==
    LET P == amount * avg[2]
        Q == Max(100 * avg[2], avg[1])
        g == GCD(P, Q)
        p == P \div g
        q == Q \div g
        num == RatioFactor * 100 * p + jitter * q
    IN  IF num <= MinBase * q THEN <<MinBase, 1>>
        ELSE IF num >= MaxBase * q THEN <<MaxBase, 1>>
        ELSE <<num, q>>

\* mutant: the bonus is kept inside the [5, 95] clamp of the base risk
AddAnomaly_clamped(base, anomaly) ==
    IF anomaly < AnomalyThreshold
    THEN IF base[1] + AnomalyBonus * base[2] >= MaxBase * base[2]
         THEN <<MaxBase, 1>>
         ELSE <<base[1] + AnomalyBonus * base[2], base[2]>>
    ELSE base

\* if anomaly < 0.05: base_risk += 20
AddAnomaly(base, anomaly) ==
    IF anomaly < AnomalyThreshold THEN <<base[1] + AnomalyBonus * base[2], base[2]>>
    ELSE base

\* mutant: the cap at 100 is left out
CapScore_uncapped(x) == x

\* min(100.0, base_risk)
CapScore(x) == IF x[1] >= ScoreCap * x[2] THEN <<ScoreCap, 1>> ELSE x

\* risk_score = round(min(100.0, base_risk), 2)
RiskScore(amount, avg, jitter, anomaly) ==
    Round2(CapScore(AddAnomaly(BaseRisk(amount, avg, jitter), anomaly)))

\* mutant: a score of exactly 70 is still labelled Safe
RiskLabel_70_safe(risk_score) ==
    IF risk_score <= SafeBelow THEN "Safe"
    ELSE IF risk_score <= SuspiciousUpTo THEN "Suspicious"
    ELSE "High Risk"

RiskLabel(risk_score) ==
    IF risk_score < SafeBelow THEN "Safe"
    ELSE IF risk_score <= SuspiciousUpTo THEN "Suspicious"
    ELSE "High Risk"

\* mutant: a score of exactly 90 is blocked
Blocked_from_90(risk_score) == risk_score >= SuspiciousUpTo

Blocked(risk_score) == risk_score > SuspiciousUpTo

VerificationRequired(risk_score) ==
    SafeBelow < risk_score /\ risk_score <= SuspiciousUpTo

VerificationStatus(verification_required) ==
    IF verification_required THEN "pending" ELSE "none"

Reasons(risk_score) ==
    IF risk_score > ReasonsAbove THEN "['Large amount', 'Unusual merchant']" ELSE "[]"

\* models.Transaction(...) of one loop iteration
NewTxn(account_id, txn_id, amount, merchant, avg, jitter, anomaly) ==
    LET risk_score == RiskScore(amount, avg, jitter, anomaly)
    IN  [account_id |-> account_id,
         txn_id |-> txn_id,
         amount |-> amount,
         merchant |-> merchant,
         risk_score |-> risk_score,
         risk_label |-> RiskLabel(risk_score),
         blocked |-> Blocked(risk_score),
         verification_required |-> VerificationRequired(risk_score),
         verification_status |-> VerificationStatus(VerificationRequired(risk_score)),
         reasons |-> Reasons(risk_score)]

\* auth.get_password_hash / auth.verify_password
PasswordHash(password) == <<"hash", password>>
VerifyPassword(password, hash) == hash = PasswordHash(password)

NoLocal == [count |-> 0, i |-> 0, account_id |-> 0, avg |-> <<0, 1>>,
            read |-> 0, email |-> "", password |-> ""]

Idle(w) == pc[w] = "idle"

Respond(handler, status, account_id) ==
    response' = [handler |-> handler, status |-> status, account_id |-> account_id]

Finish(w) ==
    /\ pc' = [pc EXCEPT ![w] = "idle"]
    /\ local' = [local EXCEPT ![w] = NoLocal]

\* ------------------------------------------------------------------- Init
Init ==
    /\ users = <<>>
    /\ accounts = <<>>
    /\ transactions = <<>>
    /\ scored = <<>>
    /\ pc = [w \in Workers |-> "idle"]
    /\ local = [w \in Workers |-> NoLocal]
    /\ response = [handler |-> "none", status |-> 0, account_id |-> 0]

\* ---------------------------------------------------------------- actions
\* GET /
root(w) ==
    /\ Idle(w)
    /\ Respond("root", 200, 0)
    /\ UNCHANGED <<users, accounts, transactions, scored, pc, local>>

\* POST /auth/signup: the email is taken -> 400
signup_exists(w) ==
    /\ Idle(w)
    /\ \E email \in Emails :
          \E k \in 1..Len(users) : users[k].email = email
    /\ Respond("signup", 400, 0)
    /\ UNCHANGED <<users, accounts, transactions, scored, pc, local>>

\* POST /auth/signup: the email is free; the handler goes on to insert the user
signup_check(w) ==
    /\ Idle(w)
    /\ \E email \in Emails, password \in Passwords :
          /\ \A k \in 1..Len(users) : users[k].email # email
          /\ pc' = [pc EXCEPT ![w] = "signup_insert"]
          /\ local' = [local EXCEPT ![w] = [NoLocal EXCEPT !.email = email,
                                                           !.password = password]]
    /\ UNCHANGED <<users, accounts, transactions, scored, response>>

\* db.add(user); safe_commit(db); db.refresh(user)
signup_commit(w) ==
    /\ pc[w] = "signup_insert"
    /\ users' = Append(users, [id |-> Len(users) + 1,
                               email |-> local[w].email,
                               password_hash |-> PasswordHash(local[w].password)])
    /\ Respond("signup", 201, 0)
    /\ Finish(w)
    /\ UNCHANGED <<accounts, transactions, scored>>

\* safe_commit: the commit raises, the session is rolled back, the request fails
signup_commit_fails(w) ==
    /\ pc[w] = "signup_insert"
    /\ Respond("signup", 500, 0)
    /\ Finish(w)
    /\ UNCHANGED <<users, accounts, transactions, scored>>

\* POST /auth/login
login(w) ==
    /\ Idle(w)
    /\ \E email \in Emails, password \in LoginPasswords :
          LET found == SelectSeq(users, LAMBDA u : u.email = email)
          IN  IF found = <<>> \/ ~VerifyPassword(password, Head(found).password_hash)
              THEN Respond("login", 401, 0)
              ELSE Respond("login", 200, 0)
    /\ UNCHANGED <<users, accounts, transactions, scored, pc, local>>

\* POST /bank/link: an account exists and is returned
link_existing(w) ==
    /\ Idle(w)
    /\ accounts # <<>>
    /\ Respond("link", 200, Head(accounts).id)
    /\ UNCHANGED <<users, accounts, transactions, scored, pc, local>>

\* POST /bank/link: the query finds no account; the handler goes on to insert one
link_check(w) ==
    /\ Idle(w)
    /\ accounts = <<>>
    /\ pc' = [pc EXCEPT ![w] = "link_insert"]
    /\ UNCHANGED <<users, accounts, transactions, scored, local, response>>

\* db.add(account); safe_commit(db); db.refresh(account)
link_commit(w) ==
    /\ pc[w] = "link_insert"
    /\ accounts' = Append(accounts, [id |-> Len(accounts) + 1,
                                     account_name |-> "Axis Bank Primary Account",
                                     account_number |-> "AXISXXXX8765",
                                     bank_name |-> "Axis Bank"])
    /\ Respond("link", 200, Len(accounts) + 1)
    /\ Finish(w)
    /\ UNCHANGED <<users, transactions, scored>>

link_commit_fails(w) ==
    /\ pc[w] = "link_insert"
    /\ Respond("link", 500, 0)
    /\ Finish(w)
    /\ UNCHANGED <<users, accounts, transactions, scored>>

\* mutant: the missing-account check is left out and the loop runs without an account
generate_no_account_unchecked(w) ==
    /\ Idle(w)
    /\ accounts = <<>>
    /\ pc' = [pc EXCEPT ![w] = "generate_loop"]
    /\ local' = [local EXCEPT ![w] = [NoLocal EXCEPT !.count = 1,
                                                     !.avg = <<DefaultAvg, 1>>]]
    /\ UNCHANGED <<users, accounts, transactions, scored, response>>

\* POST /transactions/generate with no linked account -> 400
generate_no_account(w) ==
    /\ Idle(w)
    /\ accounts = <<>>
    /\ Respond("generate", 400, 0)
    /\ UNCHANGED <<users, accounts, transactions, scored, pc, local>>

\* POST /transactions/generate: the account and its history are read, avg_amount is set
generate_start(w, counts) ==
    /\ Idle(w)
    /\ accounts # <<>>
    /\ \E count \in counts :
          LET id == Head(accounts).id
              avg == AvgAmount(PastOf(transactions, id))
          IN  IF count = 0
              THEN /\ Respond("generate", 200, id)
                   /\ UNCHANGED <<pc, local>>
              ELSE /\ pc' = [pc EXCEPT ![w] = "generate_loop"]
                   /\ local' = [local EXCEPT ![w] =
                                   [NoLocal EXCEPT !.count = count, !.account_id = id,
                                                   !.avg = avg,
                                                   !.read = Len(transactions)]]
                   /\ UNCHANGED response
    /\ UNCHANGED <<users, accounts, transactions, scored>>

\* one iteration of the loop: score, db.add(txn), safe_commit(db), db.refresh(txn)
generate_iteration(w, draws) ==
    /\ pc[w] = "generate_loop"
    /\ Len(transactions) < MaxTxns
    /\ \E d \in draws :
          /\ d.merchant \in merchants
          /\ transactions' = Append(transactions,
                NewTxn(local[w].account_id, d.txn_id, d.amount, d.merchant,
                       local[w].avg, d.jitter, d.anomaly))
          /\ scored' = Append(scored, [avg |-> local[w].avg, jitter |-> d.jitter,
                                       anomaly |-> d.anomaly, read |-> local[w].read])
    /\ IF local[w].i + 1 = local[w].count
       THEN /\ Respond("generate", 200, local[w].account_id)
            /\ Finish(w)
       ELSE /\ local' = [local EXCEPT ![w].i = @ + 1]
            /\ UNCHANGED <<pc, response>>
    /\ UNCHANGED <<users, accounts>>

\* mutant: the rollback also removes the rows the request committed before
generate_commit_fails_undoes_request(w) ==
    /\ pc[w] = "generate_loop"
    /\ transactions' = SubSeq(transactions, 1, local[w].read)
    /\ scored' = SubSeq(scored, 1, local[w].read)
    /\ Respond("generate", 500, 0)
    /\ Finish(w)
    /\ UNCHANGED <<users, accounts>>

\* safe_commit raises inside the loop: rollback of the pending row, 500
generate_commit_fails(w) ==
    /\ pc[w] = "generate_loop"
    /\ Respond("generate", 500, 0)
    /\ Finish(w)
    /\ UNCHANGED <<users, accounts, transactions, scored>>

\* GET /transactions
get_all_transactions(w) ==
    /\ Idle(w)
    /\ Respond("get_all_transactions", 200, 0)
    /\ UNCHANGED <<users, accounts, transactions, scored, pc, local>>

\* GET /transactions/{txn_id}
get_transaction(w) ==
    /\ Idle(w)
    /\ \E txn_id \in TxnIds :
          IF SelectSeq(transactions, LAMBDA t : t.txn_id = txn_id) = <<>>
          THEN Respond("get_transaction", 404, 0)
          ELSE Respond("get_transaction", 200, 0)
    /\ UNCHANGED <<users, accounts, transactions, scored, pc, local>>

Next ==
    \E w \in Workers :
        \/ root(w)
        \/ signup_exists(w)
        \/ signup_check(w)
        \/ signup_commit(w)
        \/ signup_commit_fails(w)
        \/ login(w)
        \/ link_existing(w)
        \/ link_check(w)
        \/ link_commit(w)
        \/ link_commit_fails(w)
        \/ generate_no_account(w)
        \/ generate_start(w, Counts)
        \/ generate_iteration(w, SystemDraws)
        \/ generate_commit_fails(w)
        \/ get_all_transactions(w)
        \/ get_transaction(w)

Spec == Init /\ [][Next]_vars

\* The scoring specification: the account is linked, one worker serves generate
\* requests, and every iteration draws from ScoreDraws.
ScoreWorker == "t1"

InitScore ==
    /\ users = <<>>
    /\ accounts = <<[id |-> 1,
                     account_name |-> "Axis Bank Primary Account",
                     account_number |-> "AXISXXXX8765",
                     bank_name |-> "Axis Bank"]>>
    /\ transactions = <<>>
    /\ scored = <<>>
    /\ pc = [w \in Workers |-> "idle"]
    /\ local = [w \in Workers |-> NoLocal]
    /\ response = [handler |-> "link", status |-> 200, account_id |-> 1]

NextScore ==
    \/ generate_start(ScoreWorker, ScoreCounts)
    \/ generate_iteration(ScoreWorker, ScoreDraws)
    \/ generate_commit_fails(ScoreWorker)

SpecScore == InitScore /\ [][NextScore]_vars

\* ------------------------------------------------------------------ claims
Stored == 1..Len(transactions)

Fired(k) == scored[k].anomaly < 5

\* C1: every stored transaction has 0 <= risk_score <= 100 (0..10000 hundredths),
\* whatever the amount, the average, the jitter and the anomaly outcome.
C1_ScoreInRange ==
    \A k \in Stored :
        transactions[k].risk_score >= 0 /\ transactions[k].risk_score <= 10000

\* an anomalous transaction whose score the cap brought down to exactly 100
C1_Witness ==
    \E k \in Stored :
        /\ Fired(k)
        /\ transactions[k].amount = 2000000
        /\ transactions[k].risk_score = 10000

\* C2: blocked iff risk_score > 90, verification_required iff 70 < risk_score <= 90,
\* and never both.
C2_BlockedAndVerification ==
    \A k \in Stored :
        LET t == transactions[k]
        IN  /\ t.blocked = (t.risk_score > 9000)
            /\ t.verification_required = (t.risk_score > 7000 /\ t.risk_score <= 9000)
            /\ ~(t.blocked /\ t.verification_required)

\* a transaction at exactly 90: verification required, not blocked
C2_Witness ==
    \E k \in Stored :
        /\ transactions[k].risk_score = 9000
        /\ transactions[k].verification_required
        /\ ~transactions[k].blocked

\* C3: at every score exactly one of blocked, verification_required and
\* risk_label = "Safe" holds.  (Fails at a score of exactly 70.)
C3_ExactlyOneClassification ==
    \A k \in Stored :
        LET t == transactions[k]
            b == IF t.blocked THEN 1 ELSE 0
            v == IF t.verification_required THEN 1 ELSE 0
            s == IF t.risk_label = "Safe" THEN 1 ELSE 0
        IN  b + v + s = 1

\* C4: risk_label is Safe iff score < 70, Suspicious iff 70 <= score <= 90,
\* High Risk iff score > 90.
C4_RiskLabel ==
    \A k \in Stored :
        LET t == transactions[k]
        IN  /\ (t.risk_label = "Safe") = (t.risk_score < 7000)
            /\ (t.risk_label = "Suspicious") =
                   (t.risk_score >= 7000 /\ t.risk_score <= 9000)
            /\ (t.risk_label = "High Risk") = (t.risk_score > 9000)

\* a transaction at exactly 70, labelled Suspicious
C4_Witness ==
    \E k \in Stored :
        /\ transactions[k].risk_score = 7000
        /\ transactions[k].risk_label = "Suspicious"

\* the account's rows among the first n rows of the table
HistoryBefore(k, n) ==
    PastOf(SubSeq(transactions, 1, n), transactions[k].account_id)

\* avg is the mean of past, or 200.0 when past is empty
IsAverageOf(avg, past) ==
    IF past = <<>> THEN avg[1] = 20000 * avg[2]
    ELSE avg[1] * Len(past) = SumAmounts(past) * avg[2]

C6_AnomalyBonus ==
    \A k \in Stored :
        Fired(k) =>
            transactions[k].risk_score =
                Min(10000, RiskScore(transactions[k].amount, scored[k].avg,
                                     scored[k].jitter, 5) + 2000)

\* an anomalous transaction below the cap, scored against a stored history
C6_Witness ==
    \E k \in Stored :
        /\ Fired(k)
        /\ scored[k].read > 0
        /\ transactions[k].risk_score > 2500
        /\ transactions[k].risk_score < 10000

\* C7: with jitter 0 and no anomaly, a transaction whose amount equals the average
\* has risk_score 20, label Safe, blocked false and verification_required false.
C7_AmountEqualsAverage ==
    \A k \in Stored :
        LET t == transactions[k]
        IN  (/\ scored[k].jitter = 0
             /\ ~Fired(k)
             /\ t.amount * scored[k].avg[2] = scored[k].avg[1])
            => /\ t.risk_score = 2000
               /\ t.risk_label = "Safe"
               /\ t.blocked = FALSE
               /\ t.verification_required = FALSE

\* amount = 200 against the default average, then amount = 200 against the stored mean
C7_Witness ==
    \E k \in Stored :
        /\ k > 1
        /\ scored[k].read = k - 1
        /\ scored[k].jitter = 0
        /\ ~Fired(k)
        /\ transactions[k].amount * scored[k].avg[2] = scored[k].avg[1]
        /\ transactions[k].risk_score = 2000

\* C8: a stored transaction is never changed or removed by any later request.
C8_StoredTransactionsKept ==
    [][/\ Len(transactions') >= Len(transactions)
       /\ \A k \in Stored : transactions'[k] = transactions[k]]_vars

\* the table is full, every request has returned, and the last one was a read
C8_Witness ==
    /\ Len(transactions) = MaxTxns
    /\ \A w \in Workers : pc[w] = "idle"
    /\ response.handler = "get_transaction"
    /\ response.status = 200

\* C9: at most one Account row exists and every successful /bank/link returns its id.
\* (Fails when two requests both find the table empty.)
C9_LinkIdempotent ==
    /\ Len(accounts) <= 1
    /\ (response.handler = "link" /\ response.status = 200)
           => (accounts # <<>> /\ response.account_id = Head(accounts).id)

\* C10: a generate request made while no account is linked answers 400 and stores
\* nothing; every stored transaction belongs to an existing account and none exists
\* before the first account.
C10_Rows ==
    /\ \A k \in Stored :
          \E a \in 1..Len(accounts) : accounts[a].id = transactions[k].account_id
    /\ accounts = <<>> => transactions = <<>>
    /\ \A w \in Workers : pc[w] = "generate_loop" => accounts # <<>>

C10_Step ==
    (accounts = <<>> /\ response' # response /\ response'.handler = "generate")
        => /\ response'.status = 400
           /\ transactions' = transactions
           /\ pc' = pc

C10_GenerateNeedsAccount == []C10_Rows /\ [][C10_Step]_vars

\* a rejected generate request, before any account is linked
C10_Witness ==
    /\ accounts = <<>>
    /\ transactions = <<>>
    /\ response.handler = "generate"
    /\ response.status = 400
====
